---- MODULE Spec2Model ----
(***************************************************************************)
(* Half-duplex websocket reverse proxy                                     *)
(* (pkg/half-duplex/half-duplex-backend-proxy.go).                         *)
(*                                                                         *)
(* One proxy instance, the goroutines that act on it and the two peers:    *)
(*   - the handler goroutine running ServeHTTP: resolution of the backend  *)
(*     URL, the header sets of the dial and of the upgrade, the session,   *)
(*   - the forward loop  replicateWebsocketProxyToServer (client->backend),*)
(*     which also runs the ping handler inside its ReadMessage,            *)
(*   - the intercept loop replicateWebsocketClientToProxy (backend->Viewer)*)
(*   - an embedder goroutine calling CloseProxy,                           *)
(*   - an embedder goroutine calling SendMessageByType.                    *)
(* Every frame written to a connection, every message read from one and    *)
(* every Viewer / Manager call is recorded in a log variable.              *)
(***************************************************************************)
EXTENDS Integers, Sequences, FiniteSets, TLC

\* ------------------------------------------------------------- bounds
MaxMsgs == 2        \* data messages each peer sends during a session
MaxPings == 1       \* ping frames the client sends during a session
MaxCloseCalls == 2  \* calls of CloseProxy made by the embedder
MaxSends == 1       \* calls of SendMessageByType made by the embedder
MaxEvents == 2      \* inputs and failures of the peers and calls of the embedder in one
                    \* run, all kinds together
MaxHeaders == 2     \* header names of an inbound request (or all the names at once)
MaxOtherRequests == 1  \* other requests resolved on the instance during a handshake

\* ------------------------------------------------- protocol constants
TextMessage == 1
BinaryMessage == 2
CloseMessage == 8
PingMessage == 9
PongMessage == 10
CloseNormalClosure == 1000
CloseNoStatusReceived == 1005
StatusInternalServerError == 500
StatusServiceUnavailable == 503

MsgTypes == {TextMessage, BinaryMessage}
\* a frame on the wire: message type, close code (0 when the payload carries
\* no formatted close code) and payload
Frame(t, code, p) == [t |-> t, code |-> code, p |-> p]
\* the data messages a peer sends
DataFrames == {Frame(TextMessage, 0, "a"), Frame(TextMessage, 0, "b"),
               Frame(BinaryMessage, 0, "a")}
\* the (type, payload) arguments the embedder passes to SendMessageByType
SendArgs == {<<TextMessage, "s">>, <<BinaryMessage, "t">>}
NoMsg == Frame(0, 0, "")

\* errors a read or a write can return
\*   close1000 / close1005 : *websocket.CloseError with that code
\*   net      : any other error (network failure, use of closed connection)
CloseErrors == {"close1000", "close1005"}
PeerErrors == CloseErrors \cup {"net"}
IsCloseError(e) == e \in CloseErrors
ErrCode(e) ==
  CASE e = "close1000" -> CloseNormalClosure
    [] e = "close1005" -> CloseNoStatusReceived
    [] OTHER -> 0
\* e.Text of a CloseError
ErrText(e) == IF IsCloseError(e) THEN "peer" ELSE ""
\* fmt.Sprintf("%v", err)
ErrString(e) == "err:" \o e

VARIABLES
  \* configuration of the instance (exported fields of WebsocketProxy)
  Backend,          \* "nil" | "retnil" (a resolver returning nil) | "ok"
  Viewer,           \* TRUE when a Viewer is configured
  Manager,          \* TRUE when a Manager is configured
  UniqueId,         \* "" or an identifier
  NaturalTunnel,    \* Options.NaturalTunnel
  Director,         \* TRUE when a Director is configured
  \* state of the instance
  ToBackend,        \* "nil" | "conn"
  ToClient,         \* "nil" | "conn"
  Connected,
  StopBackendChan,  \* "nil" | "open" | "closed"
  StopClientChan,   \* "nil" | "open" | "closed"
  \* the two connections
  connBackend,      \* "none" | "open" | "closed"
  connPub,          \* "none" | "open" | "closed"
  closes,           \* [backend, client] -> number of Close() calls
  leaked,           \* backend connections dialed and then dropped unowned
  faults,           \* read and write failures caused by the peers or the network
  \* handler goroutine
  hpc, rw, dials, upgrades, dialResp, herr, removed,
  \* the handshake
  optionsUrl,       \* the URL object options.Url points to
  req,              \* the inbound request
  accept,           \* the response with which the backend accepts a handshake
  backendURL,       \* "nil" | "u": the pointer the resolver returned
  dialedUrl,        \* the URL string passed to Dial
  requestHeader,    \* the header set passed to Dial
  upgradeHeader,    \* the header set passed to Upgrade
  otherResolves,    \* resolutions done for other requests on this instance
  \* error channels (capacity 1)
  errBackend, errClient,
  \* forward loop
  fpc,              \* "off" | "select" | "read" | "pong" | "write" | "werr_send" |
                    \* "rerr_send" | "rerr_close" | "stopped" | "returned"
  fmsg, ferr, cReadErr, clientReads, pings, fErrSent,
  pingLog,          \* one record for each run of the ping handler
  \* intercept loop
  ipc,              \* "off" | "select" | "read" | "view" | "rerr_send" |
                    \* "rerr_close" | "rerr_closing" | "stop_closing" | "stopped"
  imsg, ierr, bReadErr, backendReads, viewerCalls, iErrSent,
  \* wire logs
  backendWrites,    \* writer -> frames it wrote to the backend connection
  clientWrites,     \* writer -> frames it wrote to the client connection
  \* embedder goroutine calling CloseProxy
  cpc, closeCalls, chanCloses, closePanics,
  \* embedder goroutine calling SendMessageByType
  spc, sends, sType, sData, sEst, sWrites, sWriteErr, sResult,
  sArgs             \* the frames the embedder asked to send, one for each call

cfgVars == <<Backend, Viewer, Manager, UniqueId, NaturalTunnel, Director>>
proxyVars == <<ToBackend, ToClient, Connected, StopBackendChan, StopClientChan>>
connVars == <<connBackend, connPub, closes, leaked, faults>>
hsVars == <<optionsUrl, req, accept, backendURL, dialedUrl, requestHeader, upgradeHeader,
            otherResolves>>
handlerVars == <<hpc, rw, dials, upgrades, dialResp, herr, removed, hsVars>>
chanVars == <<errBackend, errClient>>
fwdVars == <<fpc, fmsg, ferr, cReadErr, clientReads, pings, fErrSent, pingLog>>
icpVars == <<ipc, imsg, ierr, bReadErr, backendReads, viewerCalls, iErrSent>>
logVars == <<backendWrites, clientWrites>>
closerVars == <<cpc, closeCalls, chanCloses, closePanics>>
senderVars == <<spc, sends, sType, sData, sEst, sWrites, sWriteErr, sResult, sArgs>>
vars == <<cfgVars, proxyVars, connVars, handlerVars, chanVars, fwdVars, icpVars,
          logVars, closerVars, senderVars>>

\* what the environment did so far: messages and pings read from the peers,
\* failures of the peers and the network, and calls made by the embedder
Events == Len(clientReads) + Len(backendReads) + pings + sends + closeCalls + faults
MoreEvents == Events < MaxEvents

\* -------------------------------------------------------- responses
NoResponse == [status |-> 0, headers |-> <<>>, body |-> ""]
\* http.Error(rw, body, status)
HttpError(body, status) == [status |-> status, headers |-> <<>>, body |-> body]

\* header sets are sequences of <<name, value>> pairs in insertion order
\* Header.Add(k, v)
HeaderAdd(h, k, v) == Append(h, <<k, v>>)

\* Header.Set(k, v): the values of k are replaced by v
HeaderSet(h, k, v) == Append(SelectSeq(h, LAMBDA e : e[1] # k), <<k, v>>)

\* lines 393-399
RECURSIVE copyHeader(_, _)
copyHeader(dst, src) ==
  IF src = <<>> THEN dst
  ELSE copyHeader(HeaderAdd(dst, Head(src)[1], Head(src)[2]), Tail(src))

\* a copy that keeps one value for each header name
RECURSIVE copyHeaderSet(_, _)
copyHeaderSet(dst, src) ==
  IF src = <<>> THEN dst
  ELSE copyHeaderSet(HeaderSet(dst, Head(src)[1], Head(src)[2]), Tail(src))

copyResponse_SingleValued(resp) ==
  [status |-> resp.status,
   headers |-> copyHeaderSet(<<>>, resp.headers),
   body |-> resp.body]

\* lines 401-408; rw.Header() of a fresh response is empty
copyResponse(resp) ==
  [status |-> resp.status,
   headers |-> copyHeader(<<>>, resp.headers),
   body |-> resp.body]

\* responses with which a backend rejects the handshake
RejectResponses ==
  { [status |-> 401,
     headers |-> <<<<"Www-Authenticate", "Basic">>, <<"Set-Cookie", "x">>,
                   <<"Set-Cookie", "y">>>>,
     body |-> "denied"],
    [status |-> 403, headers |-> <<>>, body |-> ""] }

\* ---------------------------------------------------------- headers
\* http.CanonicalHeaderKey for the names the code writes in another form
CanonicalHeaderKey(k) ==
  CASE k = "TE" -> "Te"
    [] k = "Sec-WebSocket-Protocol" -> "Sec-Websocket-Protocol"
    [] OTHER -> k

\* Header.Del(k)
HeaderDel(h, k) == SelectSeq(h, LAMBDA e : e[1] # CanonicalHeaderKey(k))
\* h[CanonicalHeaderKey(k)]: the values of k, in order
HeaderAll(h, k) ==
  LET es == SelectSeq(h, LAMBDA e : e[1] = CanonicalHeaderKey(k))
  IN  [i \in 1..Len(es) |-> es[i][2]]
\* Header.Get(k): the first value of k, "" when there is none
HeaderGet(h, k) == IF HeaderAll(h, k) = <<>> THEN "" ELSE Head(HeaderAll(h, k))
\* Header.Clone()
HeaderClone(h) == [i \in 1..Len(h) |-> <<h[i][1], h[i][2]>>]
\* a nil http.Header
NilHeader == <<>>
HeaderNamesOf(h) == {h[i][1] : i \in 1..Len(h)}

\* dst after Add(k, v) for every v of vs
RECURSIVE HeaderAddAll(_, _, _)
HeaderAddAll(dst, k, vs) ==
  IF vs = <<>> THEN dst
  ELSE HeaderAddAll(HeaderAdd(dst, CanonicalHeaderKey(k), Head(vs)), k, Tail(vs))

\* strings.Join(vs, ", ")
RECURSIVE Join(_)
Join(vs) ==
  IF vs = <<>> THEN ""
  ELSE IF Len(vs) = 1 THEN Head(vs)
  ELSE Head(vs) \o ", " \o Join(Tail(vs))

\* a stripping that forgets the hop-by-hop headers
StripNegotiation_NoHopByHop(h) ==
  HeaderDel(HeaderDel(HeaderDel(HeaderDel(HeaderDel(h,
    "Connection"), "Sec-Websocket-Extensions"), "Sec-Websocket-Key"),
    "Sec-Websocket-Version"), "Upgrade")

\* lines 86-98 (and 189-201): the eleven Del calls
StripNegotiation(h) ==
  HeaderDel(HeaderDel(HeaderDel(HeaderDel(HeaderDel(HeaderDel(
  HeaderDel(HeaderDel(HeaderDel(HeaderDel(HeaderDel(h,
    "Connection"), "Sec-Websocket-Extensions"), "Sec-Websocket-Key"),
    "Sec-Websocket-Version"), "Upgrade"),
    "Keep-Alive"), "Transfer-Encoding"), "TE"), "Trailer"),
    "Proxy-Authorization"), "Proxy-Authenticate")

\* lines 101-117: the header set of the default mode
DefaultRequestHeader(r) ==
  LET a == IF HeaderGet(r.header, "User-Agent") # ""
           THEN HeaderAdd(<<>>, "User-Agent", HeaderGet(r.header, "User-Agent"))
           ELSE <<>>
      b == IF HeaderGet(r.header, "Origin") # ""
           THEN HeaderAdd(a, "Origin", HeaderGet(r.header, "Origin"))
           ELSE a
      c == HeaderAddAll(b, "Sec-WebSocket-Protocol",
                        HeaderAll(r.header, "Sec-WebSocket-Protocol"))
      d == HeaderAddAll(c, "Cookie", HeaderAll(r.header, "Cookie"))
  IN  IF r.host # "" THEN HeaderSet(d, "Host", r.host) ELSE d

\* lines 123-131: X-Forwarded-For, when the remote address parses
ForwardedFor(r, h) ==
  IF r.clientIP = "" THEN h
  ELSE IF "X-Forwarded-For" \in HeaderNamesOf(r.header)
  THEN HeaderSet(h, "X-Forwarded-For",
                 Join(HeaderAll(r.header, "X-Forwarded-For")) \o ", " \o r.clientIP)
  ELSE HeaderSet(h, "X-Forwarded-For", r.clientIP)

\* lines 136-139
ForwardedProto(r, h) ==
  IF r.tls THEN HeaderSet(HeaderSet(h, "X-Forwarded-Proto", "http"),
                          "X-Forwarded-Proto", "https")
  ELSE HeaderSet(h, "X-Forwarded-Proto", "http")

\* lines 143-145: what the configured Director adds
AdjustHeaders(h) == HeaderSet(h, "X-Director", "d")

\* lines 73-145: the header set passed to Dial
RequestHeaderFor(r) ==
  LET h0 == IF NaturalTunnel THEN StripNegotiation(HeaderClone(r.header))
            ELSE DefaultRequestHeader(r)
      h2 == ForwardedProto(r, ForwardedFor(r, h0))
  IN  IF Director THEN AdjustHeaders(h2) ELSE h2

\* lines 176-218: the header set passed to Upgrade.  In natural-tunnel mode
\* line 180 declares a new upgradeHeader inside the block: the stripped clone
\* is dropped at the end of the block and the outer variable stays nil.
UpgradeHeaderFor(r, resp) ==
  IF NaturalTunnel THEN NilHeader
  ELSE LET a == IF HeaderGet(resp.headers, "Sec-Websocket-Protocol") # ""
                THEN HeaderSet(<<>>, "Sec-Websocket-Protocol",
                               HeaderGet(resp.headers, "Sec-Websocket-Protocol"))
                ELSE <<>>
           b == IF HeaderGet(resp.headers, "Set-Cookie") # ""
                THEN HeaderSet(a, "Set-Cookie", HeaderGet(resp.headers, "Set-Cookie"))
                ELSE a
       IN  IF HeaderGet(resp.headers, "Sec-Websocket-Accept") # ""
           THEN HeaderSet(b, "Sec-Websocket-Accept",
                          HeaderGet(resp.headers, "Sec-Websocket-Accept"))
           ELSE b

\* ------------------------------------------------------------- URLs
\* the path, fragment and raw query of options.Url as configured
ConfiguredUrl == [path |-> "/base", fragment |-> "", query |-> ""]
\* the URLs of inbound requests
ReqUrls == {[path |-> "/a", fragment |-> "", query |-> "x=1"],
            [path |-> "/b", fragment |-> "f", query |-> ""]}
\* lines 28-31: u is the pointer options.Url, the three assignments write the
\* URL object it points to; the value is that object afterwards
backend(u, r) == [u EXCEPT !.fragment = r.url.fragment, !.path = r.url.path,
                           !.query = r.url.query]
\* url.URL.String() for the configured scheme and host
UrlString(u) ==
  "ws://backend" \o u.path
    \o (IF u.query # "" THEN "?" \o u.query ELSE "")
    \o (IF u.fragment # "" THEN "#" \o u.fragment ELSE "")

\* --------------------------------------------------------- requests
\* header names of inbound requests, in the canonical form net/http gives them
FullHeader ==
  << <<"Connection", "Upgrade">>, <<"Upgrade", "websocket">>,
     <<"Sec-Websocket-Key", "k">>, <<"Sec-Websocket-Version", "13">>,
     <<"Sec-Websocket-Extensions", "deflate">>,
     <<"Sec-Websocket-Protocol", "chat">>, <<"Sec-Websocket-Protocol", "mqtt">>,
     <<"Keep-Alive", "5">>, <<"Transfer-Encoding", "chunked">>, <<"Te", "trailers">>,
     <<"Trailer", "t">>, <<"Proxy-Authorization", "pa">>, <<"Proxy-Authenticate", "pb">>,
     <<"User-Agent", "ua">>, <<"Origin", "o">>,
     <<"Cookie", "c1">>, <<"Cookie", "c2">>,
     <<"X-Forwarded-For", "1.1.1.1">>, <<"X-Forwarded-For", "2.2.2.2">> >>
HeaderNames == HeaderNamesOf(FullHeader)
InboundHeaders ==
  { SelectSeq(FullHeader, LAMBDA e : e[1] \in S) :
      S \in {T \in SUBSET HeaderNames : Cardinality(T) <= MaxHeaders \/ T = HeaderNames} }
Requests ==
  [url : ReqUrls, header : InboundHeaders, host : {"", "pub"},
   clientIP : {"", "10.0.0.1"}, tls : BOOLEAN]
DefaultRequest ==
  [url |-> [path |-> "/a", fragment |-> "", query |-> "x=1"], header |-> FullHeader,
   host |-> "pub", clientIP |-> "10.0.0.1", tls |-> FALSE]
\* responses with which a backend accepts the handshake
AcceptResponses ==
  { [status |-> 101, headers |-> <<>>, body |-> ""],
    [status |-> 101,
     headers |-> << <<"Upgrade", "websocket">>, <<"Connection", "Upgrade">>,
                    <<"Sec-Websocket-Accept", "acc">>,
                    <<"Sec-Websocket-Protocol", "chat">>,
                    <<"Set-Cookie", "x">>, <<"Set-Cookie", "y">> >>,
     body |-> ""] }
DefaultAccept == CHOOSE a \in AcceptResponses : a.headers # <<>>

\* -------------------------------------------------------------- Init
\* NewProxy: Backend is the resolver closure, the connection handles are nil and
\* the stop channels are left at their zero value (nil).  All fields are
\* exported, so an embedder may have replaced the resolver (nil, or one that
\* returns nil) and may have assigned stop channels before serving.
\* The state of the instance, of the request being served and of the
\* goroutines before ServeHTTP is called:
InitInstance ==
  /\ ToBackend = "nil" /\ ToClient = "nil"
  /\ Connected = FALSE
  /\ optionsUrl = ConfiguredUrl
  /\ backendURL = "nil" /\ dialedUrl = ""
  /\ requestHeader = NilHeader /\ upgradeHeader = NilHeader
  /\ otherResolves = 0
  /\ connBackend = "none" /\ connPub = "none"
  /\ closes = [backend |-> 0, client |-> 0]
  /\ leaked = 0
  /\ faults = 0
  /\ hpc = "idle" /\ rw = NoResponse /\ dials = 0 /\ upgrades = 0
  /\ dialResp = NoResponse /\ herr = "none" /\ removed = <<>>
  /\ errBackend = <<>> /\ errClient = <<>>
  /\ fpc = "off" /\ fmsg = NoMsg /\ ferr = "none" /\ cReadErr = "none"
  /\ clientReads = <<>> /\ pings = 0 /\ fErrSent = 0 /\ pingLog = <<>>
  /\ ipc = "off" /\ imsg = NoMsg /\ ierr = "none" /\ bReadErr = "none"
  /\ backendReads = <<>> /\ viewerCalls = <<>> /\ iErrSent = 0
  /\ backendWrites = [fwd |-> <<>>, ping |-> <<>>]
  /\ clientWrites = [icp |-> <<>>, pong |-> <<>>, send |-> <<>>]
  /\ cpc = "idle" /\ closeCalls = 0
  /\ chanCloses = [backend |-> 0, client |-> 0] /\ closePanics = 0
  /\ spc = "idle" /\ sends = 0 /\ sType = 0 /\ sData = "" /\ sEst = FALSE
  /\ sWrites = 0 /\ sWriteErr = "none" /\ sResult = "none" /\ sArgs = <<>>

\* the instance in each configuration, serving one request of the default mode
Init ==
  /\ Backend \in {"nil", "retnil", "ok"}
  /\ Viewer \in BOOLEAN
  /\ Manager \in BOOLEAN
  /\ UniqueId \in {"", "id1"}
  /\ NaturalTunnel = FALSE
  /\ Director = FALSE
  /\ StopBackendChan \in {"nil", "open"}
  /\ StopClientChan = StopBackendChan
  /\ req = DefaultRequest
  /\ accept = DefaultAccept
  /\ InitInstance

\* the instance in both modes, serving each request
InitHandshake ==
  /\ Backend \in {"nil", "retnil", "ok"}
  /\ Viewer = TRUE
  /\ Manager = TRUE
  /\ UniqueId = "id1"
  /\ NaturalTunnel \in BOOLEAN
  /\ Director \in BOOLEAN
  /\ StopBackendChan = "nil"
  /\ StopClientChan = "nil"
  /\ req \in Requests
  /\ accept \in AcceptResponses
  /\ InitInstance


\* ------------------------------------------------------ connections
\* errors a WriteMessage / WriteControl on a connection can return ("none" is
\* success): a connection closed locally always fails, an open one may fail
WriteOutcomes(conn) ==
  IF conn = "closed" THEN {"net"}
  ELSE IF MoreEvents THEN {"none", "net"}
  ELSE {"none"}

\* the error a ReadMessage returns: a failed connection keeps returning the
\* error it failed with, a locally closed one fails, an open one fails as the
\* peer or the network decides (or blocks)
ReadErrors(conn, sticky) ==
  IF sticky # "none" THEN {sticky}
  ELSE IF conn = "closed" THEN {"net"}
  ELSE IF MoreEvents THEN PeerErrors
  ELSE {}

\* the failures counted after an operation on conn ended with outcome o: a
\* failure of an open, not yet failed connection is the environment's doing
Faults(conn, sticky, o) ==
  IF conn = "open" /\ sticky = "none" /\ o # "none" THEN faults + 1 ELSE faults

\* websocket.FormatCloseMessage(code, text)
FormatCloseMessage(code, text) == Frame(CloseMessage, code, text)

\* lines 247-252 / 285-290: the close frame synthesized for a read error
CloseFrameFor(e) ==
  IF IsCloseError(e) /\ ErrCode(e) # CloseNoStatusReceived
  THEN FormatCloseMessage(ErrCode(e), ErrText(e))
  ELSE FormatCloseMessage(CloseNormalClosure, ErrString(e))

\* lines 264 / 301: dst.WriteMessage(websocket.CloseMessage, []byte("Closed by proxy"))
ProxyCloseFrame == Frame(CloseMessage, 0, "Closed by proxy")

\* the log of a connection after writer `by` wrote frame f to it
Wrote(log, by, f) == [log EXCEPT ![by] = Append(@, f)]

\* ---------------------------------------------------------- handler
\* the instance serves one inbound request
\* lines 52-56
BackendNil ==
  /\ hpc = "idle"
  /\ Backend = "nil"
  /\ rw' = HttpError("internal server error (code: 1)", StatusInternalServerError)
  /\ hpc' = "returned"
  /\ UNCHANGED <<dials, upgrades, dialResp, herr, removed>>
  /\ UNCHANGED <<cfgVars, proxyVars, connVars, chanVars, fwdVars, icpVars,
                 logVars, closerVars, senderVars>>
  /\ UNCHANGED hsVars

\* a handler that goes on to dial with the nil URL
ResolveBackend_NoNilCheck ==
  /\ hpc = "idle"
  /\ Backend # "nil"
  /\ rw' = rw
  /\ hpc' = "reqhdr"
  /\ UNCHANGED <<dials, upgrades, dialResp, herr, removed>>
  /\ UNCHANGED <<cfgVars, proxyVars, connVars, chanVars, fwdVars, icpVars,
                 logVars, closerVars, senderVars>>
  /\ IF Backend = "ok"
     THEN /\ optionsUrl' = backend(optionsUrl, req)
          /\ backendURL' = "u"
     ELSE UNCHANGED <<optionsUrl, backendURL>>
  /\ UNCHANGED <<req, accept, dialedUrl, requestHeader, upgradeHeader, otherResolves>>

\* lines 58-63
ResolveBackend ==
  /\ hpc = "idle"
  /\ Backend # "nil"
  /\ IF Backend = "retnil"
     THEN /\ rw' = HttpError("internal server error (code: 2)", StatusInternalServerError)
          /\ hpc' = "returned"
     ELSE /\ rw' = rw
          /\ hpc' = "reqhdr"
  /\ UNCHANGED <<dials, upgrades, dialResp, herr, removed>>
  /\ UNCHANGED <<cfgVars, proxyVars, connVars, chanVars, fwdVars, icpVars,
                 logVars, closerVars, senderVars>>
  /\ IF Backend = "ok"
     THEN /\ optionsUrl' = backend(optionsUrl, req)
          /\ backendURL' = "u"
     ELSE UNCHANGED <<optionsUrl, backendURL>>
  /\ UNCHANGED <<req, accept, dialedUrl, requestHeader, upgradeHeader, otherResolves>>

\* lines 73-145: the header set for the dial
BuildRequestHeader ==
  /\ hpc = "reqhdr"
  /\ requestHeader' = RequestHeaderFor(req)
  /\ hpc' = "dial"
  /\ UNCHANGED <<rw, dials, upgrades, dialResp, herr, removed>>
  /\ UNCHANGED <<optionsUrl, req, accept, backendURL, dialedUrl, upgradeHeader,
                 otherResolves>>
  /\ UNCHANGED <<cfgVars, proxyVars, connVars, chanVars, fwdVars, icpVars,
                 logVars, closerVars, senderVars>>

\* lines 58 and 28-31 run by the handler of another request on the same
\* instance: the resolver writes the URL object both handlers point to
OtherResolve ==
  /\ Backend = "ok"
  /\ otherResolves < MaxOtherRequests
  /\ otherResolves' = otherResolves + 1
  /\ \E u \in ReqUrls : optionsUrl' = backend(optionsUrl, [url |-> u])
  /\ UNCHANGED <<hpc, rw, dials, upgrades, dialResp, herr, removed>>
  /\ UNCHANGED <<req, accept, backendURL, dialedUrl, requestHeader, upgradeHeader>>
  /\ UNCHANGED <<cfgVars, proxyVars, connVars, chanVars, fwdVars, icpVars,
                 logVars, closerVars, senderVars>>

\* lines 153-167: dialer.Dial(backendURL.String(), requestHeader) and the
\* handling of its failure; backendURL points to the URL object of the options
DialOk ==
  /\ hpc = "dial"
  /\ dials' = dials + 1
  /\ connBackend' = "open"
  /\ dialResp' = accept
  /\ hpc' = "uphdr"
  /\ UNCHANGED <<rw, upgrades, herr, removed>>
  /\ UNCHANGED <<connPub, closes, leaked, faults>>
  /\ UNCHANGED <<cfgVars, proxyVars, chanVars, fwdVars, icpVars,
                 logVars, closerVars, senderVars>>
  /\ dialedUrl' = UrlString(optionsUrl)
  /\ UNCHANGED <<optionsUrl, req, accept, backendURL, requestHeader, upgradeHeader,
                 otherResolves>>

DialRejected ==
  /\ hpc = "dial"
  /\ dials' = dials + 1
  /\ \E resp \in RejectResponses :
       /\ dialResp' = resp
       /\ rw' = copyResponse(resp)
  /\ hpc' = "returned"
  /\ UNCHANGED <<upgrades, herr, removed>>
  /\ UNCHANGED <<cfgVars, proxyVars, connVars, chanVars, fwdVars, icpVars,
                 logVars, closerVars, senderVars>>
  /\ dialedUrl' = UrlString(optionsUrl)
  /\ UNCHANGED <<optionsUrl, req, accept, backendURL, requestHeader, upgradeHeader,
                 otherResolves>>

DialFailed ==
  /\ hpc = "dial"
  /\ dials' = dials + 1
  /\ dialResp' = NoResponse
  /\ rw' = HttpError("Service Unavailable", StatusServiceUnavailable)
  /\ hpc' = "returned"
  /\ UNCHANGED <<upgrades, herr, removed>>
  /\ UNCHANGED <<cfgVars, proxyVars, connVars, chanVars, fwdVars, icpVars,
                 logVars, closerVars, senderVars>>
  /\ dialedUrl' = UrlString(optionsUrl)
  /\ UNCHANGED <<optionsUrl, req, accept, backendURL, requestHeader, upgradeHeader,
                 otherResolves>>

\* lines 176-218: the header set for the upgrade
BuildUpgradeHeader ==
  /\ hpc = "uphdr"
  /\ upgradeHeader' = UpgradeHeaderFor(req, dialResp)
  /\ hpc' = "upgrade"
  /\ UNCHANGED <<rw, dials, upgrades, dialResp, herr, removed>>
  /\ UNCHANGED <<optionsUrl, req, accept, backendURL, dialedUrl, requestHeader,
                 otherResolves>>
  /\ UNCHANGED <<cfgVars, proxyVars, connVars, chanVars, fwdVars, icpVars,
                 logVars, closerVars, senderVars>>

\* lines 222-226: upgrader.Upgrade(rw, req, upgradeHeader)
UpgradeOk ==
  /\ hpc = "upgrade"
  /\ upgrades' = upgrades + 1
  /\ connPub' = "open"
  /\ hpc' = "save"
  /\ UNCHANGED <<rw, dials, dialResp, herr, removed>>
  /\ UNCHANGED <<connBackend, closes, leaked, faults>>
  /\ UNCHANGED <<cfgVars, proxyVars, chanVars, fwdVars, icpVars,
                 logVars, closerVars, senderVars>>
  /\ UNCHANGED hsVars

\* the handler returns; the dialed backend connection is referenced by nothing
UpgradeFailed ==
  /\ hpc = "upgrade"
  /\ upgrades' = upgrades + 1
  /\ leaked' = leaked + 1
  /\ UNCHANGED faults
  /\ connBackend' = "none"
  /\ hpc' = "returned"
  /\ UNCHANGED <<rw, dials, dialResp, herr, removed>>
  /\ UNCHANGED <<connPub, closes>>
  /\ UNCHANGED <<cfgVars, proxyVars, chanVars, fwdVars, icpVars,
                 logVars, closerVars, senderVars>>
  /\ UNCHANGED hsVars

\* lines 229-230 (and the installation of the ping handler, line 314)
SaveConnections ==
  /\ hpc = "save"
  /\ ToBackend' = "conn"
  /\ ToClient' = "conn"
  /\ hpc' = "connect"
  /\ UNCHANGED <<Connected, StopBackendChan, StopClientChan>>
  /\ UNCHANGED <<rw, dials, upgrades, dialResp, herr, removed>>
  /\ UNCHANGED <<cfgVars, connVars, chanVars, fwdVars, icpVars,
                 logVars, closerVars, senderVars>>
  /\ UNCHANGED hsVars

\* line 330
SetConnected ==
  /\ hpc = "connect"
  /\ Connected' = TRUE
  /\ hpc' = "spawn"
  /\ UNCHANGED <<ToBackend, ToClient, StopBackendChan, StopClientChan>>
  /\ UNCHANGED <<rw, dials, upgrades, dialResp, herr, removed>>
  /\ UNCHANGED <<cfgVars, connVars, chanVars, fwdVars, icpVars,
                 logVars, closerVars, senderVars>>
  /\ UNCHANGED hsVars

\* lines 332-333: the two go statements
StartLoops ==
  /\ hpc = "spawn"
  /\ ipc' = "select"
  /\ fpc' = "select"
  /\ hpc' = "wait"
  /\ UNCHANGED <<fmsg, ferr, cReadErr, clientReads, pings, fErrSent, pingLog>>
  /\ UNCHANGED <<imsg, ierr, bReadErr, backendReads, viewerCalls, iErrSent>>
  /\ UNCHANGED <<rw, dials, upgrades, dialResp, herr, removed>>
  /\ UNCHANGED <<cfgVars, proxyVars, connVars, chanVars,
                 logVars, closerVars, senderVars>>
  /\ UNCHANGED hsVars

\* lines 336-345: select over the two error channels
WaitErrClient ==
  /\ hpc = "wait"
  /\ errClient # <<>>
  /\ herr' = Head(errClient)
  /\ errClient' = Tail(errClient)
  /\ hpc' = "disconnect"
  /\ UNCHANGED <<errBackend, rw, dials, upgrades, dialResp, removed>>
  /\ UNCHANGED <<cfgVars, proxyVars, connVars, fwdVars, icpVars,
                 logVars, closerVars, senderVars>>
  /\ UNCHANGED hsVars

WaitErrBackend ==
  /\ hpc = "wait"
  /\ errBackend # <<>>
  /\ herr' = Head(errBackend)
  /\ errBackend' = Tail(errBackend)
  /\ hpc' = "disconnect"
  /\ UNCHANGED <<errClient, rw, dials, upgrades, dialResp, removed>>
  /\ UNCHANGED <<cfgVars, proxyVars, connVars, fwdVars, icpVars,
                 logVars, closerVars, senderVars>>
  /\ UNCHANGED hsVars

\* line 347
SetDisconnected ==
  /\ hpc = "disconnect"
  /\ Connected' = FALSE
  /\ hpc' = "remove"
  /\ UNCHANGED <<ToBackend, ToClient, StopBackendChan, StopClientChan>>
  /\ UNCHANGED <<rw, dials, upgrades, dialResp, herr, removed>>
  /\ UNCHANGED <<cfgVars, connVars, chanVars, fwdVars, icpVars,
                 logVars, closerVars, senderVars>>
  /\ UNCHANGED hsVars

\* lines 349-352
RemoveConnection ==
  /\ hpc = "remove"
  /\ removed' = IF Manager /\ Len(UniqueId) > 0
                THEN Append(removed, UniqueId) ELSE removed
  /\ hpc' = "returned"
  /\ UNCHANGED <<rw, dials, upgrades, dialResp, herr>>
  /\ UNCHANGED <<cfgVars, proxyVars, connVars, chanVars, fwdVars, icpVars,
                 logVars, closerVars, senderVars>>
  /\ UNCHANGED hsVars


\* ----------------------------------------------------- forward loop
\* replicateWebsocketProxyToServer(dst = connBackend, src = connPub,
\*                                 errc = errBackend, stopChan = StopBackendChan)
fwdRest == <<cfgVars, proxyVars, connBackend, connPub, closes, leaked, handlerVars,
             errClient, icpVars, clientWrites, closerVars, senderVars>>
\* the application data a client puts in a ping frame
PingData == {"p", "q"}

\* a forward loop that writes every message as a text message
ForwardFrame_AsText(m) == Frame(TextMessage, 0, m.p)

\* line 258: the frame written for a message read from the client
ForwardFrame(m) == Frame(m.t, 0, m.p)

\* lines 263-265: a receive from a closed channel is ready, and select takes
\* default only when no other case is ready
FwdSelectStop ==
  /\ fpc = "select"
  /\ StopBackendChan = "closed"
  /\ backendWrites' = Wrote(backendWrites, "fwd", ProxyCloseFrame)
  /\ fpc' = "stopped"
  /\ UNCHANGED <<fmsg, ferr, cReadErr, clientReads, pings, fErrSent, errBackend>>
  /\ UNCHANGED fwdRest
  /\ UNCHANGED pingLog
  /\ UNCHANGED faults

\* line 244: a nil channel is never ready, an open one is empty
FwdSelectDefault ==
  /\ fpc = "select"
  /\ StopBackendChan # "closed"
  /\ fpc' = "read"
  /\ UNCHANGED <<fmsg, ferr, cReadErr, clientReads, pings, fErrSent, errBackend,
                 backendWrites>>
  /\ UNCHANGED fwdRest
  /\ UNCHANGED pingLog
  /\ UNCHANGED faults

\* line 245, err == nil
FwdReadMessage ==
  /\ fpc = "read"
  /\ connPub = "open"
  /\ cReadErr = "none"
  /\ Len(clientReads) < MaxMsgs
  /\ MoreEvents
  /\ \E m \in DataFrames :
       /\ clientReads' = Append(clientReads, m)
       /\ fmsg' = m
  /\ fpc' = "write"
  /\ UNCHANGED <<ferr, cReadErr, pings, fErrSent, errBackend, backendWrites>>
  /\ UNCHANGED fwdRest
  /\ UNCHANGED pingLog
  /\ UNCHANGED faults

\* lines 245-252, err != nil
FwdReadError ==
  /\ fpc = "read"
  /\ \E e \in ReadErrors(connPub, cReadErr) :
       /\ faults' = Faults(connPub, cReadErr, e)
       /\ cReadErr' = e
       /\ ferr' = e
       /\ fmsg' = CloseFrameFor(e)
  /\ fpc' = "rerr_send"
  /\ UNCHANGED <<clientReads, pings, fErrSent, errBackend, backendWrites>>
  /\ UNCHANGED fwdRest
  /\ UNCHANGED pingLog

\* lines 314-318: the client's ping, carrying application data d, reaches the
\* ping handler inside ReadMessage; the handler writes a ping carrying d to the
\* backend and returns the write's error, which ReadMessage then returns
PingHandlerPing ==
  /\ fpc = "read"
  /\ connPub = "open"
  /\ cReadErr = "none"
  /\ pings < MaxPings
  /\ MoreEvents
  /\ pings' = pings + 1
  /\ \E d \in PingData, o \in WriteOutcomes(connBackend) :
       /\ backendWrites' = Wrote(backendWrites, "ping", Frame(PingMessage, 0, d))
       /\ faults' = Faults(connBackend, "none", o)
       /\ pingLog' = Append(pingLog, [d |-> d, pingErr |-> o, pong |-> FALSE,
                                      pongErr |-> "none",
                                      ret |-> IF o = "none" THEN "pending" ELSE o])
       /\ IF o = "none"
          THEN /\ fpc' = "pong"
               /\ UNCHANGED <<fmsg, ferr, cReadErr>>
          ELSE /\ fpc' = "rerr_send"
               /\ cReadErr' = o
               /\ ferr' = o
               /\ fmsg' = CloseFrameFor(o)
  /\ UNCHANGED <<clientReads, fErrSent, errBackend>>
  /\ UNCHANGED fwdRest

\* the errors the pong's WriteControl can return: ErrCloseSent, a temporary
\* network error, any other error
PongOutcomes(conn) ==
  IF conn = "closed" THEN {"closesent", "net"}
  ELSE IF MoreEvents THEN {"none", "closesent", "temp", "net"}
  ELSE {"none"}

\* a handler that returns every error of the pong write
PongReturn_Strict(o) == IF o = "none" THEN "nil" ELSE o

\* lines 322-327: ErrCloseSent and temporary network errors are swallowed
PongReturn(o) == IF o \in {"none", "closesent", "temp"} THEN "nil" ELSE o

\* lines 321-327; WriteControl writes the whole control frame under the
\* connection's write mutex, whoever else is writing
PingHandlerPong ==
  /\ fpc = "pong"
  /\ clientWrites' = Wrote(clientWrites, "pong",
                           Frame(PongMessage, 0, pingLog[Len(pingLog)].d))
  /\ \E o \in PongOutcomes(connPub) :
       /\ faults' = Faults(connPub, "none", o)
       /\ pingLog' = [pingLog EXCEPT ![Len(pingLog)] =
                        [@ EXCEPT !.pong = TRUE, !.pongErr = o, !.ret = PongReturn(o)]]
       /\ IF PongReturn(o) = "nil"
          THEN /\ fpc' = "read"
               /\ UNCHANGED <<fmsg, ferr, cReadErr>>
          ELSE /\ fpc' = "rerr_send"
               /\ cReadErr' = PongReturn(o)
               /\ ferr' = PongReturn(o)
               /\ fmsg' = CloseFrameFor(PongReturn(o))
  /\ UNCHANGED <<clientReads, pings, fErrSent, errBackend, backendWrites>>
  /\ UNCHANGED <<cfgVars, proxyVars, connBackend, connPub, closes, leaked, handlerVars,
                 errClient, icpVars, closerVars, senderVars>>

\* lines 258-262
FwdWrite ==
  /\ fpc = "write"
  /\ backendWrites' = Wrote(backendWrites, "fwd", ForwardFrame(fmsg))
  /\ \E o \in WriteOutcomes(connBackend) :
       /\ faults' = Faults(connBackend, "none", o)
       /\ IF o = "none"
          THEN fpc' = "select" /\ ferr' = ferr
          ELSE fpc' = "werr_send" /\ ferr' = o
  /\ UNCHANGED <<fmsg, cReadErr, clientReads, pings, fErrSent, errBackend>>
  /\ UNCHANGED fwdRest
  /\ UNCHANGED pingLog

\* lines 260-261 and 267-269: report the write error and leave the loop
FwdSendWriteErr ==
  /\ fpc = "werr_send"
  /\ Len(errBackend) < 1
  /\ errBackend' = Append(errBackend, ferr)
  /\ fErrSent' = fErrSent + 1
  /\ fpc' = "returned"
  /\ UNCHANGED <<fmsg, ferr, cReadErr, clientReads, pings, backendWrites>>
  /\ UNCHANGED fwdRest
  /\ UNCHANGED pingLog
  /\ UNCHANGED faults

\* line 253
FwdSendReadErr ==
  /\ fpc = "rerr_send"
  /\ Len(errBackend) < 1
  /\ errBackend' = Append(errBackend, ferr)
  /\ fErrSent' = fErrSent + 1
  /\ fpc' = "rerr_close"
  /\ UNCHANGED <<fmsg, ferr, cReadErr, clientReads, pings, backendWrites>>
  /\ UNCHANGED fwdRest
  /\ UNCHANGED pingLog
  /\ UNCHANGED faults

\* lines 254-255 and 267: the close frame is written; break leaves the select
\* statement only, doExit is false and the for loop goes round again
FwdWriteClose ==
  /\ fpc = "rerr_close"
  /\ backendWrites' = Wrote(backendWrites, "fwd", fmsg)
  /\ fpc' = "select"
  /\ UNCHANGED <<fmsg, ferr, cReadErr, clientReads, pings, fErrSent, errBackend>>
  /\ UNCHANGED fwdRest
  /\ UNCHANGED pingLog
  /\ UNCHANGED faults

\* --------------------------------------------------- intercept loop
\* replicateWebsocketClientToProxy(dst = connPub, src = connBackend,
\*                                 errc = errClient, stopChan = StopClientChan)
icpRest == <<cfgVars, proxyVars, connBackend, connPub, closes, leaked, handlerVars,
             errBackend, fwdVars, backendWrites, closerVars, senderVars>>

\* an intercept loop that hands every message to the Viewer, whatever its type
HandsToViewer_AnyType(m) == Viewer

\* line 297
HandsToViewer(m) == m.t = TextMessage /\ Viewer

\* lines 300-301: the stop case is taken and the loop enters dst.WriteMessage
IcpSelectStop ==
  /\ ipc = "select"
  /\ StopClientChan = "closed"
  /\ ipc' = "stop_closing"
  /\ UNCHANGED <<imsg, ierr, bReadErr, backendReads, viewerCalls, iErrSent, errClient,
                 clientWrites>>
  /\ UNCHANGED icpRest
  /\ UNCHANGED faults

\* lines 301-302: the close frame is written, WriteMessage returns and the loop
\* returns
IcpWriteStopClose ==
  /\ ipc = "stop_closing"
  /\ clientWrites' = Wrote(clientWrites, "icp", ProxyCloseFrame)
  /\ ipc' = "stopped"
  /\ UNCHANGED <<imsg, ierr, bReadErr, backendReads, viewerCalls, iErrSent, errClient>>
  /\ UNCHANGED icpRest
  /\ UNCHANGED faults

IcpSelectDefault ==
  /\ ipc = "select"
  /\ StopClientChan # "closed"
  /\ ipc' = "read"
  /\ UNCHANGED <<imsg, ierr, bReadErr, backendReads, viewerCalls, iErrSent, errClient,
                 clientWrites>>
  /\ UNCHANGED icpRest
  /\ UNCHANGED faults

\* line 283, err == nil
IcpReadMessage ==
  /\ ipc = "read"
  /\ connBackend = "open"
  /\ bReadErr = "none"
  /\ Len(backendReads) < MaxMsgs
  /\ MoreEvents
  /\ \E m \in DataFrames :
       /\ backendReads' = Append(backendReads, m)
       /\ imsg' = m
  /\ ipc' = "view"
  /\ UNCHANGED <<ierr, bReadErr, viewerCalls, iErrSent, errClient, clientWrites>>
  /\ UNCHANGED icpRest
  /\ UNCHANGED faults

\* an intercept loop that relays the backend's message to the client as a
\* full-duplex proxy does
IcpView_Relaying ==
  /\ ipc = "view"
  /\ viewerCalls' = IF imsg.t = TextMessage /\ Viewer THEN Append(viewerCalls, imsg.p)
                    ELSE viewerCalls
  /\ clientWrites' = Wrote(clientWrites, "icp", imsg)
  /\ ipc' = "select"
  /\ UNCHANGED <<imsg, ierr, bReadErr, backendReads, iErrSent, errClient, faults>>
  /\ UNCHANGED <<cfgVars, proxyVars, connBackend, connPub, closes, leaked, handlerVars,
                 errBackend, fwdVars, backendWrites, closerVars, senderVars>>

\* an intercept loop that hands a text message to the Viewer twice
IcpView_Twice ==
  /\ ipc = "view"
  /\ viewerCalls' = IF HandsToViewer(imsg) THEN viewerCalls \o <<imsg.p, imsg.p>>
                    ELSE viewerCalls
  /\ ipc' = "select"
  /\ UNCHANGED <<imsg, ierr, bReadErr, backendReads, iErrSent, errClient, clientWrites>>
  /\ UNCHANGED icpRest
  /\ UNCHANGED faults

\* lines 296-299
IcpView ==
  /\ ipc = "view"
  /\ viewerCalls' = IF HandsToViewer(imsg) THEN Append(viewerCalls, imsg.p)
                    ELSE viewerCalls
  /\ ipc' = "select"
  /\ UNCHANGED <<imsg, ierr, bReadErr, backendReads, iErrSent, errClient, clientWrites>>
  /\ UNCHANGED icpRest
  /\ UNCHANGED faults

\* lines 283-290, err != nil
IcpReadError ==
  /\ ipc = "read"
  /\ \E e \in ReadErrors(connBackend, bReadErr) :
       /\ faults' = Faults(connBackend, bReadErr, e)
       /\ bReadErr' = e
       /\ ierr' = e
       /\ imsg' = CloseFrameFor(e)
  /\ ipc' = "rerr_send"
  /\ UNCHANGED <<backendReads, viewerCalls, iErrSent, errClient, clientWrites>>
  /\ UNCHANGED icpRest

\* line 291
IcpSendReadErr ==
  /\ ipc = "rerr_send"
  /\ Len(errClient) < 1
  /\ errClient' = Append(errClient, ierr)
  /\ iErrSent' = iErrSent + 1
  /\ ipc' = "rerr_close"
  /\ UNCHANGED <<imsg, ierr, bReadErr, backendReads, viewerCalls, clientWrites>>
  /\ UNCHANGED icpRest
  /\ UNCHANGED faults

\* line 292: the loop enters dst.WriteMessage
IcpEnterWriteClose ==
  /\ ipc = "rerr_close"
  /\ ipc' = "rerr_closing"
  /\ UNCHANGED <<imsg, ierr, bReadErr, backendReads, viewerCalls, iErrSent, errClient,
                 clientWrites>>
  /\ UNCHANGED icpRest
  /\ UNCHANGED faults

\* lines 292-293 and 304: the close frame is written and WriteMessage returns
IcpWriteClose ==
  /\ ipc = "rerr_closing"
  /\ clientWrites' = Wrote(clientWrites, "icp", imsg)
  /\ ipc' = "select"
  /\ UNCHANGED <<imsg, ierr, bReadErr, backendReads, viewerCalls, iErrSent, errClient>>
  /\ UNCHANGED icpRest
  /\ UNCHANGED faults


\* ------------------------------------------------------- CloseProxy
closerRest == <<cfgVars, handlerVars, chanVars, fwdVars, icpVars, logVars, senderVars>>

\* close(ch) panics on a nil channel and on a closed channel
ClosePanics(ch) == ch # "open"

\* lines 380-383; a call starts when the previous one returned or panicked
CloseProxyBackend ==
  /\ cpc \in {"idle", "panicked"}
  /\ closeCalls < MaxCloseCalls
  /\ MoreEvents
  /\ closeCalls' = closeCalls + 1
  /\ IF ToBackend # "nil"
     THEN /\ connBackend' = "closed"
          /\ closes' = [closes EXCEPT !.backend = @ + 1]
          /\ ToBackend' = "nil"
     ELSE UNCHANGED <<connBackend, closes, ToBackend>>
  /\ cpc' = "client"
  /\ UNCHANGED <<ToClient, Connected, StopBackendChan, StopClientChan>>
  /\ UNCHANGED <<connPub, leaked, faults, chanCloses, closePanics>>
  /\ UNCHANGED closerRest

\* lines 384-387
CloseProxyClient ==
  /\ cpc = "client"
  /\ IF ToClient # "nil"
     THEN /\ connPub' = "closed"
          /\ closes' = [closes EXCEPT !.client = @ + 1]
          /\ ToClient' = "nil"
     ELSE UNCHANGED <<connPub, closes, ToClient>>
  /\ cpc' = "stopBackend"
  /\ UNCHANGED <<ToBackend, Connected, StopBackendChan, StopClientChan>>
  /\ UNCHANGED <<connBackend, leaked, faults, closeCalls, chanCloses, closePanics>>
  /\ UNCHANGED closerRest

\* line 389
CloseStopBackendChan ==
  /\ cpc = "stopBackend"
  /\ IF ClosePanics(StopBackendChan)
     THEN /\ cpc' = "panicked"
          /\ closePanics' = closePanics + 1
          /\ UNCHANGED <<StopBackendChan, chanCloses>>
     ELSE /\ StopBackendChan' = "closed"
          /\ chanCloses' = [chanCloses EXCEPT !.backend = @ + 1]
          /\ cpc' = "stopClient"
          /\ UNCHANGED closePanics
  /\ UNCHANGED <<ToBackend, ToClient, Connected, StopClientChan>>
  /\ UNCHANGED <<connVars, closeCalls>>
  /\ UNCHANGED closerRest

\* line 390
CloseStopClientChan ==
  /\ cpc = "stopClient"
  /\ IF ClosePanics(StopClientChan)
     THEN /\ cpc' = "panicked"
          /\ closePanics' = closePanics + 1
          /\ UNCHANGED <<StopClientChan, chanCloses>>
     ELSE /\ StopClientChan' = "closed"
          /\ chanCloses' = [chanCloses EXCEPT !.client = @ + 1]
          /\ cpc' = "idle"
          /\ UNCHANGED closePanics
  /\ UNCHANGED <<ToBackend, ToClient, Connected, StopBackendChan>>
  /\ UNCHANGED <<connVars, closeCalls>>
  /\ UNCHANGED closerRest

\* ------------------------------------------------ SendMessageByType
senderRest == <<cfgVars, proxyVars, connBackend, connPub, closes, leaked, handlerVars,
                chanVars, fwdVars, icpVars, closerVars>>

\* lines 366-370: the value returned after the write
SendReturn(werr) == IF werr # "none" THEN werr ELSE "nil"

\* lines 361-363
SendCheck ==
  /\ spc \in {"idle", "done", "panicked"}
  /\ sends < MaxSends
  /\ MoreEvents
  /\ sends' = sends + 1
  /\ \E a \in SendArgs :
       /\ sType' = a[1]
       /\ sData' = a[2]
       /\ sArgs' = Append(sArgs, Frame(a[1], 0, a[2]))
  /\ sEst' = (ToClient # "nil")
  /\ sWrites' = 0
  /\ sWriteErr' = "none"
  /\ IF ToClient = "nil"
     THEN spc' = "done" /\ sResult' = "ErrConnectionNotEstablished"
     ELSE spc' = "write" /\ sResult' = "none"
  /\ UNCHANGED logVars
  /\ UNCHANGED senderRest
  /\ UNCHANGED faults

\* line 365: the field w.ToClient is read a second time, unsynchronized with
\* the assignment in CloseProxy.  When CloseProxy has set it to nil since the
\* check, the read yields nil and the method call on a nil *Conn panics, or it
\* yields the value the check saw and the call enters WriteMessage on the
\* closed connection.
SendEnterWrite ==
  /\ spc = "write"
  /\ \/ /\ ToClient = "nil"
        /\ spc' = "panicked"
        /\ sResult' = "panic"
     \/ /\ spc' = "writing"
        /\ sResult' = sResult
  /\ UNCHANGED <<sends, sType, sData, sEst, sWrites, sWriteErr, sArgs, logVars, faults>>
  /\ UNCHANGED senderRest

\* lines 365-370: the message is written, WriteMessage returns and its error
\* is returned
SendWrite ==
  /\ spc = "writing"
  /\ clientWrites' = Wrote(clientWrites, "send", Frame(sType, 0, sData))
  /\ sWrites' = sWrites + 1
  /\ \E o \in WriteOutcomes(connPub) :
       /\ faults' = Faults(connPub, "none", o)
       /\ sWriteErr' = o
       /\ sResult' = SendReturn(o)
  /\ spc' = "done"
  /\ UNCHANGED <<sends, sType, sData, sEst, sArgs, backendWrites>>
  /\ UNCHANGED senderRest

\* ------------------------------------------------------------- Next
Next ==
  \/ BackendNil \/ ResolveBackend
  \/ BuildRequestHeader
  \/ DialOk \/ DialRejected \/ DialFailed
  \/ BuildUpgradeHeader
  \/ UpgradeOk \/ UpgradeFailed
  \/ SaveConnections \/ SetConnected \/ StartLoops
  \/ WaitErrClient \/ WaitErrBackend \/ SetDisconnected \/ RemoveConnection
  \/ FwdSelectStop \/ FwdSelectDefault \/ FwdReadMessage \/ FwdReadError
  \/ PingHandlerPing \/ PingHandlerPong
  \/ FwdWrite \/ FwdSendWriteErr \/ FwdSendReadErr \/ FwdWriteClose
  \/ IcpSelectStop \/ IcpWriteStopClose
  \/ IcpSelectDefault \/ IcpReadMessage \/ IcpView
  \/ IcpReadError \/ IcpSendReadErr \/ IcpEnterWriteClose \/ IcpWriteClose
  \/ CloseProxyBackend \/ CloseProxyClient
  \/ CloseStopBackendChan \/ CloseStopClientChan
  \/ SendCheck \/ SendEnterWrite \/ SendWrite

Spec == Init /\ [][Next]_vars

\* the handshake of one request, in both modes and for each inbound request,
\* while the instance resolves other requests
NextHandshake ==
  \/ BackendNil \/ ResolveBackend \/ OtherResolve
  \/ BuildRequestHeader
  \/ DialOk \/ DialRejected \/ DialFailed
  \/ BuildUpgradeHeader
  \/ UpgradeOk \/ UpgradeFailed
  \/ SaveConnections

SpecHandshake == InitHandshake /\ [][NextHandshake]_vars


\* ================================================================ claims

\* the data frames the forward loop wrote to the backend
FwdData == SelectSeq(backendWrites.fwd, LAMBDA f : f.t # CloseMessage)
\* the backend messages the intercept loop has finished with
Processed ==
  IF ipc = "view" THEN SubSeq(backendReads, 1, Len(backendReads) - 1) ELSE backendReads
PayloadsOf(msgs) == [i \in 1..Len(msgs) |-> msgs[i].p]
TextOf(msgs) == SelectSeq(msgs, LAMBDA m : m.t = TextMessage)

\* C1: while the relay runs, the data frames the forward loop has written to the
\* backend are exactly the messages it has read from the client, same type and
\* payload, in the order read; message k is written before message k+1 is read
\* (at most the message just read is still unwritten, and only while the loop
\* is about to write it); the Viewer is called for backend messages only.
C1_ForwardVerbatimInOrder ==
  fpc # "off" =>
    /\ Len(FwdData) <= Len(clientReads)
    /\ \A k \in 1..Len(FwdData) :
         /\ FwdData[k].t = clientReads[k].t
         /\ FwdData[k].p = clientReads[k].p
    /\ Len(clientReads) - Len(FwdData) = (IF fpc = "write" THEN 1 ELSE 0)
    /\ Len(viewerCalls) <= Len(TextOf(backendReads))

C1_Witness ==
  /\ Len(clientReads) = 2
  /\ Len(FwdData) = 2
  /\ clientReads[1] # clientReads[2]
  /\ clientReads[1].t = BinaryMessage


\* C2: the relay loops write no data message to the client.  The intercept loop
\* writes close frames only, one for each read failure it reported and one when
\* it stops on its stop signal; the ping bridge writes pong frames only; the
\* remaining frames on the client connection are the (type, payload) handed to
\* SendMessageByType.
C2_NothingRelayedToClient ==
  /\ \A i \in 1..Len(clientWrites.icp) : clientWrites.icp[i].t = CloseMessage
  /\ Len(clientWrites.icp) <= iErrSent + (IF ipc = "stopped" THEN 1 ELSE 0)
  /\ \A i \in 1..Len(clientWrites.pong) : clientWrites.pong[i].t = PongMessage
  /\ Len(clientWrites.pong) <= pings
  /\ Len(clientWrites.send) <= Len(sArgs)
  /\ \A i \in 1..Len(clientWrites.send) :
       \E j \in i..Len(sArgs) : clientWrites.send[i] = sArgs[j]

C2_Witness ==
  /\ Len(Processed) = 1
  /\ clientWrites.icp = <<>>
  /\ Len(clientWrites.send) = 1

\* C3 as stated: with a Viewer configured, every message the intercept loop has
\* read from the backend, whatever its type, has been passed to the Viewer.
C3_EveryMessageToViewer ==
  Viewer => viewerCalls = PayloadsOf(Processed)

\* C3 amended: with a Viewer configured, the Viewer has received exactly the
\* text messages read from the backend, in order; a message of any other type
\* is dropped; no backend message is written to the client or to the backend.
C3_TextMessagesToViewer ==
  /\ Viewer => viewerCalls = PayloadsOf(TextOf(Processed))
  /\ \A i \in 1..Len(clientWrites.icp) : clientWrites.icp[i].t = CloseMessage
  /\ Len(FwdData) <= Len(clientReads)

C3_Witness ==
  /\ Viewer
  /\ Len(Processed) = 2
  /\ Processed[1].t = BinaryMessage
  /\ Processed[2].t = TextMessage
  /\ viewerCalls = <<Processed[2].p>>

\* the values of header k, in order
HeaderValues(h, k) == SelectSeq(h, LAMBDA e : e[1] = k)
SameHeaders(g, h) ==
  \A k \in {g[i][1] : i \in 1..Len(g)} \cup {h[i][1] : i \in 1..Len(h)} :
    HeaderValues(g, k) = HeaderValues(h, k)

\* C4: without a resolver, or with a resolver that returns nil, the request is
\* answered 500 (code 1, respectively code 2, in the body) and nothing else is
\* done: no dial, no upgrade, the connected flag is not touched, the Manager
\* is not called.
C4_NoResolverIs500 ==
  Backend \in {"nil", "retnil"} =>
    /\ dials = 0 /\ upgrades = 0 /\ Connected = FALSE /\ removed = <<>>
    /\ hpc \in {"idle", "returned"}
    /\ hpc = "returned" =>
         /\ rw.status = StatusInternalServerError
         /\ rw.body = (IF Backend = "nil" THEN "internal server error (code: 1)"
                       ELSE "internal server error (code: 2)")

C4_Witness ==
  /\ Backend = "retnil"
  /\ hpc = "returned"
  /\ rw.status = StatusInternalServerError

\* the handler returned because the dial failed
DialHasFailed == hpc = "returned" /\ dials = 1 /\ upgrades = 0

\* C5: after a failed dial the response is the backend's (status, every header
\* value, body) when the dial returned one and 503 otherwise; no upgrade is
\* attempted, no relay loop runs, the connected flag is false and both
\* connection handles are nil.
C5_DialFailureRelayed ==
  DialHasFailed =>
    /\ dialResp # NoResponse =>
         /\ rw.status = dialResp.status
         /\ SameHeaders(rw.headers, dialResp.headers)
         /\ rw.body = dialResp.body
    /\ dialResp = NoResponse => rw.status = StatusServiceUnavailable
    /\ connPub = "none" /\ connBackend = "none"
    /\ fpc = "off" /\ ipc = "off"
    /\ Connected = FALSE
    /\ ToBackend = "nil" /\ ToClient = "nil"

C5_Witness ==
  /\ DialHasFailed
  /\ rw.status = 401
  /\ Len(HeaderValues(rw.headers, "Set-Cookie")) = 2
  /\ rw.body = "denied"


\* C6: two calls of CloseProxy in a row never panic; no connection is closed
\* twice; a stop channel is never closed twice, and once a call has returned
\* each stop channel has been closed exactly once.
C6_CloseProxyTwice ==
  /\ closePanics = 0
  /\ \A c \in {"backend", "client"} : closes[c] <= 1 /\ chanCloses[c] <= 1
  /\ (closeCalls >= 1 /\ cpc = "idle") =>
       chanCloses.backend = 1 /\ chanCloses.client = 1

\* C7: a call of SendMessageByType that found no client connection returned
\* ErrConnectionNotEstablished and wrote nothing; a call that found one wrote
\* (type, payload) to the client connection exactly once and returned the
\* error of that write, nil when it succeeded.
C7_SendTyped ==
  spc \in {"done", "panicked"} =>
    IF sEst
    THEN /\ sWrites = 1
         /\ clientWrites.send # <<>>
         /\ clientWrites.send[Len(clientWrites.send)] = Frame(sType, 0, sData)
         /\ sResult = (IF sWriteErr = "none" THEN "nil" ELSE sWriteErr)
    ELSE /\ sWrites = 0
         /\ sResult = "ErrConnectionNotEstablished"

\* the handler has completed the client upgrade and marked the session (line 330)
SessionUp ==
  hpc \in {"spawn", "wait", "disconnect", "remove", "returned"} /\ connPub # "none"
\* a relay loop has returned on its stop signal, or the handler has taken a
\* terminal error from a relay loop and acted on it
LoopTerminated ==
  fpc = "stopped" \/ ipc = "stopped" \/ hpc \in {"remove", "returned"}

\* C8: the connected flag is true exactly while the session is up and no relay
\* loop has terminated.
C8_ConnectedFlag == Connected = (SessionUp /\ ~LoopTerminated)

\* C9: when the handler has returned from a session with both connections
\* established, each connection has been closed exactly once.
C9_ClosedExactlyOnce ==
  (hpc = "returned" /\ connPub # "none") =>
    closes.backend = 1 /\ closes.client = 1

\* C10: the handler is never left waiting on two empty error channels after
\* both relay loops have returned.
C10_HandlerNotStuck ==
  ~ /\ hpc = "wait"
    /\ fpc \in {"stopped", "returned"}
    /\ ipc = "stopped"
    /\ errBackend = <<>> /\ errClient = <<>>

\* the runs of the ping handler in which the pong was written
PongRuns == SelectSeq(pingLog, LAMBDA r : r.pong)

\* C11: each run of the ping handler with application data d wrote a ping
\* carrying d to the backend first; when that write failed the handler returned
\* its error and wrote no pong; otherwise it wrote a pong carrying d to the
\* client and returned nil when the pong write succeeded, failed with
\* ErrCloseSent or failed with a temporary network error, and the pong write's
\* error in every other case.
C11_PingBridge ==
  /\ Len(backendWrites.ping) = Len(pingLog)
  /\ Len(clientWrites.pong) = Len(PongRuns)
  /\ \A i \in 1..Len(PongRuns) : clientWrites.pong[i] = Frame(PongMessage, 0, PongRuns[i].d)
  /\ \A i \in 1..Len(pingLog) :
       LET r == pingLog[i] IN
       /\ backendWrites.ping[i] = Frame(PingMessage, 0, r.d)
       /\ r.pingErr # "none" => (~r.pong /\ r.ret = r.pingErr)
       /\ (r.pingErr = "none" /\ ~r.pong) =>
            (i = Len(pingLog) /\ fpc = "pong" /\ r.ret = "pending")
       /\ r.pong =>
            /\ r.pingErr = "none"
            /\ r.pongErr \in {"none", "closesent", "temp"} => r.ret = "nil"
            /\ r.pongErr \notin {"none", "closesent", "temp"} => r.ret = r.pongErr

C11_Witness ==
  /\ Len(pingLog) = 1
  /\ pingLog[1].d = "q"
  /\ pingLog[1].pong
  /\ pingLog[1].pongErr = "closesent"
  /\ pingLog[1].ret = "nil"
  /\ clientWrites.pong = <<Frame(PongMessage, 0, "q")>>

\* the connection, upgrade and sec-websocket-* headers of a handshake
NegotiationHeaders ==
  {"Connection", "Upgrade", "Sec-Websocket-Key", "Sec-Websocket-Version",
   "Sec-Websocket-Extensions", "Sec-Websocket-Protocol", "Sec-Websocket-Accept"}
HopByHopHeaders ==
  {"Keep-Alive", "Transfer-Encoding", "Te", "Trailer", "Proxy-Authorization",
   "Proxy-Authenticate"}
\* the negotiation headers the dialer writes itself
DialerHeaders ==
  {"Connection", "Upgrade", "Sec-Websocket-Key", "Sec-Websocket-Version",
   "Sec-Websocket-Extensions"}

C13_ReadErrorReportedOnce ==
  /\ fErrSent <= 1 /\ iErrSent <= 1
  /\ fErrSent = 1 => fpc \in {"rerr_close", "stopped", "returned"}
  /\ iErrSent = 1 => ipc \in {"rerr_close", "rerr_closing", "stopped"}
  /\ ~(fpc \in {"rerr_send", "werr_send"} /\ Len(errBackend) = 1)
  /\ ~(ipc = "rerr_send" /\ Len(errClient) = 1)

\* C14: once a direction's stop channel is closed, the relay loop of that
\* direction reports no error on its error channel, whatever it was doing
\* when the channel was closed (no peer and no network has failed: the only
\* failures are those of the connections CloseProxy closed).
C14_StopWithoutError ==
  [][/\ (faults = 0 /\ StopBackendChan = "closed") => fErrSent' = fErrSent
     /\ (faults = 0 /\ StopClientChan = "closed") => iErrSent' = iErrSent]_vars

\* the writers of the client connection that are inside a write on it; the
\* pong of the ping handler is written in one step
ClientWriters ==
  {w \in {"icp", "send"} :
     \/ w = "icp" /\ ipc \in {"rerr_closing", "stop_closing"}
     \/ w = "send" /\ spc = "writing"}

\* C15: at no time are two writers of the client connection (the intercept
\* loop writing a close frame, SendMessageByType, the pong of the ping
\* handler) inside a write on it.
C15_ClientWritesSerialized == Cardinality(ClientWriters) <= 1

\* C16: resolving the backend URL leaves the URL of the options as configured
\* (path, fragment and raw query), and the URL dialed for the request is the
\* configured URL overlaid with that request's path, fragment and raw query,
\* whatever was resolved for other requests.
C16_ResolutionPure ==
  /\ optionsUrl = ConfiguredUrl
  /\ dialedUrl # "" => dialedUrl = UrlString(backend(ConfiguredUrl, req))

\* C17: once the handler has returned from an established session, no relay
\* loop of the session is still running: each has returned.
C17_LoopsCancelled ==
  (hpc = "returned" /\ connPub # "none") =>
    /\ fpc \in {"stopped", "returned"}
    /\ ipc = "stopped"

\* the text messages the intercept loop has read from the backend and is done with
TextProcessed == TextOf(Processed)

\* C18: with a Viewer configured the calls of the Viewer are, one for one and
\* in order, the text messages read from the backend, each with the payload
\* read; nothing but close frames has been written to the client by the loop
\* that read them; the messages read from the client cause no call.  Without
\* a Viewer there is no call.
C18_TextToViewerOnce ==
  /\ Viewer =>
       /\ Len(viewerCalls) = Len(TextProcessed)
       /\ \A k \in 1..Len(viewerCalls) : viewerCalls[k] = TextProcessed[k].p
  /\ ~Viewer => viewerCalls = <<>>
  /\ \A i \in 1..Len(clientWrites.icp) :
       clientWrites.icp[i].t \notin MsgTypes
  /\ Len(backendReads) = 0 => viewerCalls = <<>>

C18_Witness ==
  /\ Viewer
  /\ Len(Processed) = 2
  /\ Processed[1] = Frame(TextMessage, 0, "b")
  /\ Processed[2] = Frame(TextMessage, 0, "a")
  /\ viewerCalls = <<"b", "a">>
  /\ clientWrites.icp = <<>>

\* C19: SendMessageByType never calls WriteMessage through a nil client
\* handle: a call that passed the nil check finds the handle non-nil when it
\* uses it.
C19_NoNilHandleUse ==
  /\ spc # "panicked"
  /\ spc = "write" => ToClient # "nil"

\* C20: no backend connection is left open and unowned: when the upgrade has
\* failed the connection the dial opened has been closed before the handler
\* returns.
C20_NoLeakedBackend ==
  /\ leaked = 0
  /\ (hpc = "returned" /\ dials = 1 /\ upgrades = 1 /\ connPub = "none") =>
       closes.backend = 1

====
